---- MODULE Spec2Model ----
(***************************************************************************)
(* Model of server.js: an Express application with one upload route.       *)
(*                                                                         *)
(*   POST /upload  -> multer stores the csvFile part under uploads/,       *)
(*                    the handler spawns python3 run_dealerships.py        *)
(*                    <inputFile> <outputFile>, logs the child's stdout    *)
(*                    and stderr, and answers from the child's 'close'     *)
(*                    event: res.download(outputFile) on code 0,           *)
(*                    500 "Python script failed." otherwise.               *)
(*                                                                         *)
(* The state is the file system under uploads/, the child process of each  *)
(* request, the console output attributed to each child, and each          *)
(* request's HTTP response.  The child process is opaque: while it runs it *)
(* may write any bytes to the output path it was given, emit stdout and    *)
(* stderr chunks, and exit with any code (or be killed by a signal).       *)
(*                                                                         *)
(* res.download is asynchronous: it first opens the file (failure there    *)
(* invokes the callback with an error before any header is written), then  *)
(* writes the 200 header and streams the file; the stream either completes *)
(* (callback without error) or fails part-way, e.g. because the client     *)
(* aborts (callback with an error after the header is written).            *)
(*                                                                         *)
(* Nothing in server.js catches an exception thrown from a callback, so    *)
(* one thrown there ends the node process (serverUp = FALSE); an exception *)
(* thrown synchronously in the route handler is caught by the router.      *)
(* The python3 interpreter is taken to be installed: spawn itself works.   *)
(***************************************************************************)
EXTENDS Integers, Sequences, FiniteSets, TLC

VARIABLES
    serverUp,    \* the node process is alive (no uncaught exception so far)
    fs,          \* files under uploads/: path -> [bytes, writer]
    hasFile,     \* req.file is defined (the request carried a csvFile part)
    hist,        \* the states each request has passed through, in order
    spawnArgs,   \* the argument lists of the spawn calls made for each request
    proc,        \* the child process of each request: none / running / exited
    exitCode,    \* the exit code of an exited child
    written,     \* what the child of each request last wrote to its output path
    stdoutLog,   \* console.log lines from the child's stdout 'data' events
    stderrLog,   \* console.error lines from the child's stderr 'data' events
    resp,        \* the HTTP response of each request as the client sees it
    attempts,    \* how many times the server has tried to send a response
    reads        \* how many times the output path has been opened for a request

vars == <<serverUp, fs, hasFile, hist, spawnArgs, proc, exitCode, written,
          stdoutLog, stderrLog, resp, attempts, reads>>

\* ------------------------------------------------------------------ bounds

\* number of POST /upload requests in flight
NumReqs == 2

\* stdout (and stderr) chunks logged per child
MaxChunks == 1

Reqs == 1..NumReqs

\* contents a child may write to its output path ("" is an empty file)
Bytes == {"", "x", "y"}

\* a chunk on stdout or stderr
Chunks == {"Traceback"}

\* `code` of the 'close' event when the child was killed by a signal (null)
SignalNull == -1

\* codes the 'close' event can carry
ExitCodes == {0, 1, SignalNull}

\* ------------------------------------------------------------- the program

\* `undefined` as a spawn argument
Undefined == "undefined"

\* the path multer generates for the upload of request r
TmpPath(r) == "uploads/" \o ToString(r)

\* an output path of the request's own
OutputFilePerRequest(r) == "uploads/processed-" \o ToString(r) \o ".csv"

\* the fixed output path
OutputFile(r) == "uploads/processed.csv"

Last(s) == s[Len(s)]

NoResponse == [status |-> 0, body |-> "", headersSent |-> FALSE,
               ended |-> FALSE, aborted |-> FALSE, from |-> 0]

\* what a thrown exception leaves in place of a value
Throws == "TypeError"

WriteFile(fsys, path, bytes, who) ==
    [p \in (DOMAIN fsys) \cup {path} |->
        IF p = path THEN [bytes |-> bytes, writer |-> who] ELSE fsys[p]]

\* a storage that names every upload alike, so each one replaces the last
StoreUploadFixedName(r) == WriteFile(fs, "uploads/upload", "csv", 0)

\* multer({ dest: 'uploads/' }): the csvFile part is written to a fresh path
StoreUpload(r) == WriteFile(fs, TmpPath(r), "csv", 0)

\* req.file?.path: no exception, the path is undefined
InputFileUnchecked(r, f) == IF f THEN TmpPath(r) ELSE Undefined

\* req.file.path: req.file is undefined when the request has no csvFile part
InputFile(r, f) == IF f THEN TmpPath(r) ELSE Throws

\* a test that treats only exit code 1 as failure
CloseBranchOnlyOne(code) == IF code # 1 THEN "download" ELSE "fail"

\* the test of the 'close' handler: code === 0
CloseBranch(code) == IF code = 0 THEN "download" ELSE "fail"

\* res.send('Python script failed.') without the status
FailResponseNoStatus(r) ==
    [status |-> 200, body |-> "Python script failed.", headersSent |-> TRUE,
     ended |-> TRUE, aborted |-> FALSE, from |-> 0]

\* res.status(500).send(<what the child wrote to stderr>)
FailResponseLeak(r) ==
    [status |-> 500,
     body |-> IF stderrLog[r] = << >> THEN "Python script failed."
              ELSE stderrLog[r][1],
     headersSent |-> TRUE, ended |-> TRUE, aborted |-> FALSE, from |-> 0]

\* res.status(500).send('Python script failed.')
FailResponse(r) == [status |-> 500, body |-> "Python script failed.",
                    headersSent |-> TRUE, ended |-> TRUE, aborted |-> FALSE,
                    from |-> 0]

\* res.status(500).send('Error downloading processed file.')
DownloadErrorResponse(r) ==
    [status |-> 500, body |-> "Error downloading processed file.",
     headersSent |-> TRUE, ended |-> TRUE, aborted |-> FALSE, from |-> 0]

\* Express's default error handler answering an exception thrown by a handler
ErrorHandlerResponse(r) ==
    [status |-> 500, body |-> "TypeError", headersSent |-> TRUE,
     ended |-> TRUE, aborted |-> FALSE, from |-> 0]

\* the file res.download streams for request r
DownloadPath(r) == OutputFile(r)

\* the part of a response the client sees
ClientView(r) == [status |-> resp[r].status, body |-> resp[r].body]

Arrived(r) == Len(hist[r]) > 1

Streaming(r) == resp[r].headersSent /\ ~resp[r].ended

Init ==
    /\ serverUp = TRUE
    /\ fs = << >>
    /\ hasFile = [r \in Reqs |-> FALSE]
    /\ hist = [r \in Reqs |-> <<"Idle">>]
    /\ spawnArgs = [r \in Reqs |-> << >>]
    /\ proc = [r \in Reqs |-> "none"]
    /\ exitCode = [r \in Reqs |-> 0]
    /\ written = [r \in Reqs |-> [wrote |-> FALSE, bytes |-> ""]]
    /\ stdoutLog = [r \in Reqs |-> << >>]
    /\ stderrLog = [r \in Reqs |-> << >>]
    /\ resp = [r \in Reqs |-> NoResponse]
    /\ attempts = [r \in Reqs |-> 0]
    /\ reads = [r \in Reqs |-> 0]

\* POST /upload: upload.single('csvFile'), then the route handler up to the
\* registration of the child's listeners.
Upload(r) ==
    /\ serverUp
    /\ hist[r] = <<"Idle">>
    /\ \E f \in BOOLEAN :
        /\ hasFile' = [hasFile EXCEPT ![r] = f]
        /\ fs' = IF f THEN StoreUpload(r) ELSE fs
        /\ IF InputFile(r, f) = Throws
           THEN \* the TypeError is caught by the router and answered by
                \* the default error handler; nothing is spawned
                /\ hist' = [hist EXCEPT ![r] = Append(@, "Faulted")]
                /\ resp' = [resp EXCEPT ![r] = ErrorHandlerResponse(r)]
                /\ attempts' = [attempts EXCEPT ![r] = @ + 1]
                /\ UNCHANGED <<spawnArgs, proc>>
           ELSE /\ spawnArgs' = [spawnArgs EXCEPT ![r] =
                       Append(@, [inputFile |-> InputFile(r, f),
                                  outputFile |-> OutputFile(r)])]
                /\ proc' = [proc EXCEPT ![r] = "running"]
                /\ hist' = [hist EXCEPT ![r] = Append(@, "Spawned")]
                /\ UNCHANGED <<resp, attempts>>
    /\ UNCHANGED <<serverUp, exitCode, written, stdoutLog, stderrLog, reads>>

\* the child writes to the output path it was given (it outlives the server)
ProcWrite(r) ==
    /\ proc[r] = "running"
    /\ \E b \in Bytes :
        /\ fs' = WriteFile(fs, spawnArgs[r][1].outputFile, b, r)
        /\ written' = [written EXCEPT ![r] = [wrote |-> TRUE, bytes |-> b]]
    /\ UNCHANGED <<serverUp, hasFile, hist, spawnArgs, proc, exitCode,
                   stdoutLog, stderrLog, resp, attempts, reads>>

\* process.stdout.on('data'): console.log only
OnStdout(r) ==
    /\ serverUp
    /\ proc[r] = "running"
    /\ Len(stdoutLog[r]) < MaxChunks
    /\ \E c \in Chunks : stdoutLog' = [stdoutLog EXCEPT ![r] = Append(@, c)]
    /\ UNCHANGED <<serverUp, fs, hasFile, hist, spawnArgs, proc, exitCode,
                   written, stderrLog, resp, attempts, reads>>

\* process.stderr.on('data'): console.error only
OnStderr(r) ==
    /\ serverUp
    /\ proc[r] = "running"
    /\ Len(stderrLog[r]) < MaxChunks
    /\ \E c \in Chunks : stderrLog' = [stderrLog EXCEPT ![r] = Append(@, c)]
    /\ UNCHANGED <<serverUp, fs, hasFile, hist, spawnArgs, proc, exitCode,
                   written, stdoutLog, resp, attempts, reads>>

\* the child terminates; there is no timer that would make it
ProcExit(r) ==
    /\ proc[r] = "running"
    /\ \E c \in ExitCodes : exitCode' = [exitCode EXCEPT ![r] = c]
    /\ proc' = [proc EXCEPT ![r] = "exited"]
    /\ UNCHANGED <<serverUp, fs, hasFile, hist, spawnArgs, written,
                   stdoutLog, stderrLog, resp, attempts, reads>>

\* process.on('close'): the completion event of the child of request r
OnClose(r) ==
    /\ serverUp
    /\ proc[r] = "exited"
    /\ Last(hist[r]) = "Spawned"
    /\ IF CloseBranch(exitCode[r]) = "download"
       THEN \* res.download(...) is started; it answers later
            /\ hist' = [hist EXCEPT ![r] = Append(@, "Succeeded")]
            /\ UNCHANGED <<resp, attempts>>
       ELSE /\ hist' = [hist EXCEPT ![r] = @ \o <<"Failed", "Responded">>]
            /\ resp' = [resp EXCEPT ![r] = FailResponse(r)]
            /\ attempts' = [attempts EXCEPT ![r] = @ + 1]
    /\ UNCHANGED <<serverUp, fs, hasFile, spawnArgs, proc, exitCode, written,
                   stdoutLog, stderrLog, reads>>

\* res.download opens the file: when that fails the callback gets the error
\* before any header is written; otherwise the 200 header goes out.
DownloadOpen(r) ==
    /\ serverUp
    /\ Last(hist[r]) = "Succeeded"
    /\ reads' = [reads EXCEPT ![r] = @ + 1]
    /\ attempts' = [attempts EXCEPT ![r] = @ + 1]
    /\ hist' = [hist EXCEPT ![r] = Append(@, "Responded")]
    /\ IF DownloadPath(r) \in DOMAIN fs
       THEN resp' = [resp EXCEPT ![r] =
                [status |-> 200, body |-> "", headersSent |-> TRUE,
                 ended |-> FALSE, aborted |-> FALSE, from |-> 0]]
       ELSE resp' = [resp EXCEPT ![r] = DownloadErrorResponse(r)]
    /\ UNCHANGED <<serverUp, fs, hasFile, spawnArgs, proc, exitCode, written,
                   stdoutLog, stderrLog>>

\* the stream completes: the client has the file's bytes, callback(undefined)
DownloadEnd(r) ==
    /\ serverUp
    /\ Streaming(r)
    /\ resp' = [resp EXCEPT ![r].body = fs[DownloadPath(r)].bytes,
                            ![r].from = fs[DownloadPath(r)].writer,
                            ![r].ended = TRUE]
    /\ UNCHANGED <<serverUp, fs, hasFile, hist, spawnArgs, proc, exitCode,
                   written, stdoutLog, stderrLog, attempts, reads>>

\* the transfer fails after the header was written (the client aborts, a
\* read error): callback(err) runs res.status(500).send(...), which throws
\* ERR_HTTP_HEADERS_SENT out of the callback; nothing catches it.
TransferFail(r) ==
    /\ serverUp
    /\ Streaming(r)
    /\ attempts' = [attempts EXCEPT ![r] = @ + 1]
    /\ resp' = [resp EXCEPT ![r].ended = TRUE, ![r].aborted = TRUE]
    /\ serverUp' = FALSE
    /\ UNCHANGED <<fs, hasFile, hist, spawnArgs, proc, exitCode, written,
                   stdoutLog, stderrLog, reads>>

Next ==
    \/ \E r \in Reqs : Upload(r)
    \/ \E r \in Reqs : ProcWrite(r)
    \/ \E r \in Reqs : OnStdout(r)
    \/ \E r \in Reqs : OnStderr(r)
    \/ \E r \in Reqs : ProcExit(r)
    \/ \E r \in Reqs : OnClose(r)
    \/ \E r \in Reqs : DownloadOpen(r)
    \/ \E r \in Reqs : DownloadEnd(r)
    \/ \E r \in Reqs : TransferFail(r)

Spec == Init /\ [][Next]_vars

\* The event loop runs every handler whose event is pending while the server
\* is alive; the child's termination and the client's abort are not owed.
FairSpec ==
    /\ Spec
    /\ \A r \in Reqs : WF_vars(OnClose(r))
    /\ \A r \in Reqs : WF_vars(DownloadOpen(r))
    /\ \A r \in Reqs : WF_vars(DownloadEnd(r))

\* ------------------------------------------------------------------ claims

SuccessPath == <<"Idle", "Spawned", "Succeeded", "Responded">>
FailurePath == <<"Idle", "Spawned", "Failed", "Responded">>

IsPrefix(s, t) == Len(s) <= Len(t) /\ \A i \in 1..Len(s) : s[i] = t[i]

Visited(r, st) == \E i \in 1..Len(hist[r]) : hist[r][i] = st

\* the transfer of the 200 response of r ran to completion
Delivered(r) == resp[r].status = 200 /\ resp[r].ended /\ ~resp[r].aborted

\* the files multer has stored
UploadArtifacts == (DOMAIN fs) \ {OutputFile(r) : r \in Reqs}

\* C1: a request whose child exited 0 after writing a nonempty output file
\* is answered 200 with exactly the bytes its own child wrote.
C1_OwnOutputDelivered ==
    \A r \in Reqs :
        (/\ hasFile[r] /\ proc[r] = "exited" /\ exitCode[r] = 0
         /\ written[r].wrote /\ written[r].bytes # ""
         /\ resp[r].ended /\ ~resp[r].aborted)
        => (resp[r].status = 200 /\ resp[r].body = written[r].bytes)

\* C2: a request whose child exited with a nonzero code is answered with
\* 500 "Python script failed." whatever is at the output path, and the
\* output path is never opened for it.
C2_NonzeroExitFails ==
    \A r \in Reqs :
        (proc[r] = "exited" /\ exitCode[r] # 0)
        => /\ reads[r] = 0
           /\ resp[r].from = 0
           /\ Last(hist[r]) # "Spawned" =>
                ClientView(r) = [status |-> 500, body |-> "Python script failed."]
           /\ Last(hist[r]) = "Spawned" => resp[r] = NoResponse

C2_Witness ==
    \E r \in Reqs :
        /\ exitCode[r] # 0 /\ Visited(r, "Failed")
        /\ written[r].wrote /\ written[r].bytes # ""
        /\ OutputFile(r) \in DOMAIN fs
        /\ fs[OutputFile(r)].bytes # ""

\* C3: when the child exited 0 and the output file could not be streamed
\* to the end, the response is 500 "Error downloading processed file.".
C3_DownloadErrorIs500 ==
    \A r \in Reqs :
        (Visited(r, "Succeeded") /\ resp[r].ended /\ ~Delivered(r))
        => ClientView(r) =
             [status |-> 500, body |-> "Error downloading processed file."]

\* C4: every child is given the same output path, and a delivered 200 body
\* is what the last writer of that path left there: the request's own
\* child when it was the last writer, otherwise another request's child.
C4_SharedOutputPath ==
    /\ \A a, b \in Reqs :
          (spawnArgs[a] # << >> /\ spawnArgs[b] # << >>)
          => spawnArgs[a][1].outputFile = spawnArgs[b][1].outputFile
    /\ \A a \in Reqs :
          Delivered(a)
          => /\ resp[a].from \in {b \in Reqs : proc[b] # "none"}
             /\ resp[a].from = a => resp[a].body = written[a].bytes

C4_Witness ==
    \E a, b \in Reqs :
        /\ a # b
        /\ proc[a] = "exited" /\ exitCode[a] = 0
        /\ proc[b] = "exited" /\ exitCode[b] = 0
        /\ Delivered(a) /\ Delivered(b)
        /\ resp[a].from = b
        /\ resp[a].body = written[b].bytes
        /\ written[a].wrote /\ written[a].bytes # ""
        /\ written[a].bytes # resp[a].body

\* C5 as stated: a request without a csvFile part still reaches the spawn,
\* which receives an undefined input path.
C5_SpawnedWithUndefined ==
    \A r \in Reqs :
        (Arrived(r) /\ ~hasFile[r])
        => /\ Len(spawnArgs[r]) = 1
           /\ spawnArgs[r][1].inputFile = Undefined

\* C5 amended: a request without a csvFile part never reaches the spawn;
\* reading req.file.path throws first and no child exists for it.
C5_NoFileNeverSpawns ==
    \A r \in Reqs :
        (Arrived(r) /\ ~hasFile[r])
        => /\ spawnArgs[r] = << >>
           /\ proc[r] = "none"
           /\ hist[r] = <<"Idle", "Faulted">>

C5_Witness ==
    \E r \in Reqs : Arrived(r) /\ ~hasFile[r] /\ resp[r].ended

\* C6: two failed requests that agree on everything but what their
\* children wrote to stdout and stderr get the same status and body.
C6_StdioNotRelayed ==
    \A r1, r2 \in Reqs :
        (/\ resp[r1].ended /\ resp[r2].ended
         /\ resp[r1].status = 500 /\ resp[r2].status = 500
         /\ hist[r1] = hist[r2]
         /\ exitCode[r1] = exitCode[r2])
        => ClientView(r1) = ClientView(r2)

C6_Witness ==
    \E r1, r2 \in Reqs :
        /\ Visited(r1, "Failed") /\ Visited(r2, "Failed")
        /\ exitCode[r1] = exitCode[r2]
        /\ stderrLog[r1] # << >> /\ stderrLog[r2] = << >>
        /\ stdoutLog[r1] = << >> /\ stdoutLog[r2] # << >>

\* C7: a request with a file moves Idle -> Spawned -> Succeeded or Failed
\* -> Responded, is spawned once, enters Succeeded only on code 0 and
\* Failed only on another code, and is not answered before its child's
\* completion event.
C7_StateMachine ==
    \A r \in Reqs :
        (hasFile[r] \/ ~Arrived(r))
        => /\ IsPrefix(hist[r], SuccessPath) \/ IsPrefix(hist[r], FailurePath)
           /\ Len(spawnArgs[r]) = (IF Arrived(r) THEN 1 ELSE 0)
           /\ Visited(r, "Succeeded") => (proc[r] = "exited" /\ exitCode[r] = 0)
           /\ Visited(r, "Failed") => (proc[r] = "exited" /\ exitCode[r] # 0)
           /\ (attempts[r] > 0 \/ resp[r] # NoResponse)
                => (proc[r] = "exited" /\ Len(hist[r]) >= 3)

C7_Witness ==
    \E r1, r2 \in Reqs : hist[r1] = SuccessPath /\ hist[r2] = FailurePath

\* C8: a request stays in Spawned, unanswered, for as long as its child
\* runs; and every request whose child has terminated is eventually
\* Responded.
C8_NoTimeoutAndProgress ==
    /\ [][\A r \in Reqs :
            (proc[r] = "running" /\ proc'[r] = "running")
            => (hist'[r] = hist[r] /\ Last(hist[r]) = "Spawned"
                /\ resp'[r] = NoResponse)]_vars
    /\ \A r \in Reqs :
         (proc[r] = "exited") ~> (Last(hist[r]) = "Responded")

\* C9: no step removes an upload artifact, and the artifacts are exactly
\* one file for each request received with a csvFile part.
C9_UploadsOnlyGrow ==
    [][/\ UploadArtifacts \subseteq UploadArtifacts'
       /\ UploadArtifacts' =
            {TmpPath(r) : r \in {q \in Reqs : Arrived(q)' /\ hasFile'[q]}}]_vars

C9_Witness ==
    \E r1, r2 \in Reqs :
        /\ hist[r1] = SuccessPath /\ resp[r1].ended
        /\ hist[r2] = FailurePath
        /\ {TmpPath(r1), TmpPath(r2)} \subseteq UploadArtifacts

\* C10: at most one response is attempted for a request.
C10_AtMostOneResponse == \A r \in Reqs : attempts[r] <= 1
====
